---- MODULE Spec2Model ----
(***************************************************************************)
(* Model of init_project.py, the one-shot initialization script of the     *)
(* django-starter-template repository.                                     *)
(*                                                                         *)
(* Four specifications share the variables:                               *)
(*   Spec        the script as it is run: main() calls cli() first          *)
(*   SpecMain    the body of main() from the Namespace cli() is written to  *)
(*               return (lines 258-372)                                    *)
(*   SpecCleanup remove_git_repo / remove_venv / remove_database called     *)
(*               directly, any number of times, on one directory           *)
(*   SpecManifest update_pyproject_toml called directly, any number of     *)
(*               times, on one manifest                                    *)
(*                                                                         *)
(* A str is a sequence of one-character strings.  File contents are        *)
(* sequences too, in which a fixed piece of template text is one element.  *)
(* An optional value (str | None) is <<>> for None and <<v>> for v.        *)
(***************************************************************************)
EXTENDS Naturals, Sequences, FiniteSets

VARIABLES
    argv,          \* the command line: [project_name, description, skip_git]
    args,          \* the Namespace cli() returned, None before
    pc,            \* position in main()
    exit_code,     \* the process's exit status, None while it runs
    console,       \* the last message printed
    project_name,  \* main()'s local project_name, None while unbound
    description,   \* main()'s local description
    fs,            \* the base directory: .git, .venv, src/db.sqlite3, README.md, pyproject.toml
    fs0,           \* the base directory as the run found it
    total_tasks,   \* the progress bar's total
    advanced,      \* the number of progress.advance(task) calls
    steps,         \* the setup steps entered, in order
    failed,        \* the step that hit a filesystem error, None if none did
    validated,     \* the last call of validate_project_name: <<[name, result]>>
    call,          \* (direct calls) the last function call and what it found
    completed      \* (direct calls) the cleanup functions that have returned

vars == <<argv, args, pc, exit_code, console, project_name, description, fs, fs0,
          total_tasks, advanced, steps, failed, validated, call, completed>>

-----------------------------------------------------------------------------
(* Bounds and input sets *)

MaxNameLen == 2

\* one lower-case letter, one upper-case letter, a hyphen, a blank, a newline
InputChars == {"a", "B", "-", " ", "\n"}

None == <<>>
Some(v) == <<v>>
Val(o) == o[1]

RECURSIVE SeqsUpTo(_, _)
SeqsUpTo(S, n) ==
    IF n = 0 THEN {<<>>}
    ELSE LET shorter == SeqsUpTo(S, n - 1)
         IN  shorter \cup {Append(s, c) : s \in shorter, c \in S}

Names == SeqsUpTo(InputChars, MaxNameLen)

Whitespace == {" ", "\n"}

\* What Prompt.ask hands back: one input line, stripped.
PromptNames ==
    {s \in Names : /\ \A i \in 1..Len(s) : s[i] # "\n"
                   /\ Len(s) > 0 => (s[1] \notin Whitespace /\ s[Len(s)] \notin Whitespace)}

-----------------------------------------------------------------------------
(* str.lower and re.match(r'^[a-z0-9_-]+$', name) *)

LowerSeq == <<"a", "b", "c", "d", "e", "f", "g", "h", "i", "j", "k", "l", "m",
              "n", "o", "p", "q", "r", "s", "t", "u", "v", "w", "x", "y", "z">>
UpperSeq == <<"A", "B", "C", "D", "E", "F", "G", "H", "I", "J", "K", "L", "M",
              "N", "O", "P", "Q", "R", "S", "T", "U", "V", "W", "X", "Y", "Z">>
Digits == {"0", "1", "2", "3", "4", "5", "6", "7", "8", "9"}

LowerLetters == {LowerSeq[i] : i \in DOMAIN LowerSeq}

\* the character class [a-z0-9_-]
NameClass == LowerLetters \cup Digits \cup {"_", "-"}

LowerChar(c) ==
    IF \E i \in DOMAIN UpperSeq : UpperSeq[i] = c
    THEN LowerSeq[CHOOSE i \in DOMAIN UpperSeq : UpperSeq[i] = c]
    ELSE c

lower(s) == [i \in 1..Len(s) |-> LowerChar(s[i])]

\* '$' without re.MULTILINE matches at the end of the string and just before a
\* newline that is the string's last character; i is the next position to read.
DollarAt(s, i) ==
    \/ i = Len(s) + 1
    \/ i = Len(s) /\ s[i] = "\n"

\* '^' at position 1, one or more characters of the class (backtracking over the
\* length of the run), then '$'.
ReMatch(s) ==
    \E k \in 1..Len(s) :
        /\ \A i \in 1..k : s[i] \in NameClass
        /\ DollarAt(s, k + 1)

Truthy(o) == o # None /\ Val(o) # <<>>

validate_project_name(name) ==
    IF ~Truthy(name) THEN FALSE ELSE ReMatch(Val(name))

-----------------------------------------------------------------------------
(* The base directory *)

\* What a path can be.  Path.exists() follows symbolic links, so a link whose
\* target is missing does not exist.
Kinds == {"absent", "dir", "file", "broken_link"}

Exists(kind) == kind \in {"dir", "file"}

\* shutil.rmtree raises OSError on anything but a directory it may delete.
RmtreeRaises(kind, oserror) == kind # "dir" \/ oserror

\* Path.unlink raises OSError on anything but a file it may delete.
UnlinkRaises(kind, oserror) == kind # "file" \/ oserror

\* The result of a step: the directory after it, whether it hit a filesystem
\* error, and whether it called sys.exit(1).
Result(f, err, ex) == [fs |-> f, oserror |-> err, exit |-> ex]

remove_git_repo(f, oserror) ==
    IF Exists(f.git)
    THEN IF RmtreeRaises(f.git, oserror)
         THEN Result(f, TRUE, TRUE)
         ELSE Result([f EXCEPT !.git = "absent"], FALSE, FALSE)
    ELSE Result(f, FALSE, FALSE)

\* shutil.rmtree(venv_dir, ignore_errors=True): the error is swallowed
remove_venv_ignore_errors(f, oserror) ==
    IF Exists(f.venv)
    THEN IF RmtreeRaises(f.venv, oserror)
         THEN Result(f, TRUE, FALSE)
         ELSE Result([f EXCEPT !.venv = "absent"], FALSE, FALSE)
    ELSE Result(f, FALSE, FALSE)

remove_venv(f, oserror) ==
    IF Exists(f.venv)
    THEN IF RmtreeRaises(f.venv, oserror)
         THEN Result(f, TRUE, TRUE)
         ELSE Result([f EXCEPT !.venv = "absent"], FALSE, FALSE)
    ELSE Result(f, FALSE, FALSE)

\* db_file.unlink() without the exists() test
remove_database_unchecked(f, oserror) ==
    IF UnlinkRaises(f.db, oserror)
    THEN Result(f, TRUE, TRUE)
    ELSE Result([f EXCEPT !.db = "absent"], FALSE, FALSE)

remove_database(f, oserror) ==
    IF Exists(f.db)
    THEN IF UnlinkRaises(f.db, oserror)
         THEN Result(f, TRUE, TRUE)
         ELSE Result([f EXCEPT !.db = "absent"], FALSE, FALSE)
    ELSE Result(f, FALSE, FALSE)

-----------------------------------------------------------------------------
(* README.md *)

DefaultOverview == <<"A Django project built with the Django Starter Template.">>

ReadmeHead == "# "
ReadmeOverview == "\n\n## Overview\n\n"
\* the fixed text from "## Features" to "[Add your license here]"
ReadmeRest == "\n\n## Features ... ## License\n\n[Add your license here]\n"

\* overview = description if description is not None else ...
create_readme_none_only(f, name, desc, oserror) ==
    LET overview == IF desc # None THEN Val(desc) ELSE DefaultOverview
        readme_content == <<ReadmeHead>> \o name \o <<ReadmeOverview>> \o overview
                          \o <<ReadmeRest>>
    IN  IF oserror
        THEN Result(f, TRUE, TRUE)
        ELSE Result([f EXCEPT !.readme = Some(readme_content)], FALSE, FALSE)

create_readme(f, name, desc, oserror) ==
    LET overview == IF Truthy(desc) THEN Val(desc) ELSE DefaultOverview
        readme_content == <<ReadmeHead>> \o name \o <<ReadmeOverview>> \o overview
                          \o <<ReadmeRest>>
    IN  IF oserror
        THEN Result(f, TRUE, TRUE)
        ELSE Result([f EXCEPT !.readme = Some(readme_content)], FALSE, FALSE)

-----------------------------------------------------------------------------
(* pyproject.toml *)

NAME_KEY == "name = \""
TEMPLATE_NAME == "django-starter-template"
DESC_KEY == "description = \""
TEMPLATE_DESC == "A simple way to start your Django project with a solid foundation."
QUOTE == "\""

\* 'name = "django-starter-template"'
NameLiteral == <<NAME_KEY, TEMPLATE_NAME, QUOTE>>
\* 'description = "A simple way to start your Django project with a solid foundation."'
DescLiteral == <<DESC_KEY, TEMPLATE_DESC, QUOTE>>

DefaultDescriptionTail == " - A Django project"

\* str.replace(old, new): every occurrence of old, found left to right without
\* overlap, becomes new.
RECURSIVE Replace(_, _, _)
Replace(s, old, new) ==
    IF Len(s) < Len(old) THEN s
    ELSE IF SubSeq(s, 1, Len(old)) = old
         THEN new \o Replace(SubSeq(s, Len(old) + 1, Len(s)), old, new)
         ELSE <<Head(s)>> \o Replace(Tail(s), old, new)

UpdatedContent(content, name, desc) ==
    LET renamed == Replace(content, NameLiteral, <<NAME_KEY>> \o name \o <<QUOTE>>)
        new_description == IF Truthy(desc) THEN Val(desc)
                           ELSE name \o <<DefaultDescriptionTail>>
    IN  Replace(renamed, DescLiteral, <<DESC_KEY>> \o new_description \o <<QUOTE>>)

\* ioerror: "none", or the operation the filesystem refuses ("read", "write")
update_pyproject_toml(f, name, desc, ioerror) ==
    IF f.pyproject = None THEN Result(f, TRUE, TRUE)
    ELSE IF ioerror = "read" THEN Result(f, TRUE, TRUE)
    ELSE IF ioerror = "write" THEN Result(f, TRUE, TRUE)
    ELSE Result([f EXCEPT !.pyproject = Some(UpdatedContent(Val(f.pyproject), name, desc))],
                FALSE, FALSE)

IOErrors == {"none", "read", "write"}

\* the template's manifest, a manifest without the template's lines, a manifest
\* that names the template only in a comment
TemplateManifest ==
    <<"[project]\n">> \o NameLiteral \o <<"\nversion = \"0.1.0\"\n">> \o DescLiteral
    \o <<"\nrequires-python = \">=3.13\"\n">>
OtherManifest == <<"[project]\n", "name = \"other\"\n">>
Manifests == {TemplateManifest, OtherManifest}

OldReadme == <<"# Django Starter Template\n">>

\* descriptions: free text as a sequence of pieces
PlainDescription == <<"my", " app">>

\* the longest manifest the direct calls of update_pyproject_toml build
MaxTextLen == 15

-----------------------------------------------------------------------------
(* Initial states *)

OptNames == {None} \cup {Some(n) : n \in Names}

\* -d/--description absent, empty, or a text
OptDescriptions == {None, Some(<<>>), Some(PlainDescription)}

CommandLines ==
    [project_name : OptNames, description : OptDescriptions, skip_git : BOOLEAN]

\* the directories main() is started in
MainDirs ==
    [git : {"absent", "dir", "file"}, venv : {"absent", "dir"}, db : {"absent", "file"},
     readme : {None, Some(OldReadme)}, pyproject : {None, Some(TemplateManifest)}]

NoCall == [fn |-> "none", name |-> <<>>, description |-> None, exit |-> FALSE,
           before |-> None, done_before |-> {}, again |-> FALSE]

InitCommon ==
    /\ exit_code = None
    /\ console = ""
    /\ project_name = None
    /\ description = None
    /\ fs0 = fs
    /\ total_tasks = 0
    /\ advanced = 0
    /\ steps = <<>>
    /\ failed = None
    /\ validated = None
    /\ call = NoCall
    /\ completed = {}

\* the script is started: python init_project.py ...
Init ==
    /\ argv \in CommandLines
    /\ args = None
    /\ pc = "cli"
    /\ fs \in MainDirs
    /\ InitCommon

\* main() after args = cli()
InitMain ==
    /\ argv \in CommandLines
    /\ args = Some(argv)
    /\ pc = "main"
    /\ fs \in MainDirs
    /\ InitCommon

-----------------------------------------------------------------------------
(* cli() *)

PrefixChars == {"-"}

\* ArgumentParser.add_argument(*name_or_flags): one name that does not start
\* with a prefix character declares a positional; otherwise every name must be
\* an option string, and one that does not start with a prefix character
\* raises ValueError.
add_argument(name_or_flags) ==
    IF Len(name_or_flags) = 1 /\ name_or_flags[1][1] \notin PrefixChars
    THEN "positional"
    ELSE IF \E i \in DOMAIN name_or_flags : name_or_flags[i][1] \notin PrefixChars
         THEN "ValueError"
         ELSE "optional"

\* the names of the first add_argument call, as sequences of characters
ProjectNameFlags == << <<"-", "-", "n", "a", "m", "e">>,
                       <<"p", "r", "o", "j", "e", "c", "t", "_", "n", "a", "m", "e">> >>

\* args = cli(): the parser is built before anything is parsed; an exception of
\* add_argument is caught nowhere, so the interpreter prints the traceback and
\* the process ends with status 1.
Cli ==
    /\ pc = "cli"
    /\ IF add_argument(ProjectNameFlags) = "ValueError"
       THEN /\ pc' = "exited"
            /\ exit_code' = Some(1)
            /\ console' = "Traceback: ValueError"
            /\ args' = args
       ELSE /\ pc' = "main"
            /\ args' = Some(argv)
            /\ UNCHANGED <<exit_code, console>>
    /\ UNCHANGED <<argv, project_name, description, fs, fs0, total_tasks, advanced,
                   steps, failed, validated, call, completed>>

Next == Cli

Spec == Init /\ [][Next]_vars

-----------------------------------------------------------------------------
(* main() *)

InvalidName == "Invalid project name. Use only lowercase letters, numbers, hyphens, and underscores."

\* the command-line branch without the validation
MainCommandLine_unchecked ==
    /\ pc = "main"
    /\ Truthy(Val(args).project_name)
    /\ project_name' = Some(lower(Val(Val(args).project_name)))
    /\ description' = Val(args).description
    /\ pc' = "progress"
    /\ UNCHANGED <<argv, args, exit_code, console, fs, fs0, total_tasks, advanced, steps,
                   failed, validated, call, completed>>

\* lines 259-267: a project name on the command line
MainCommandLine ==
    /\ pc = "main"
    /\ Truthy(Val(args).project_name)
    /\ LET name == lower(Val(Val(args).project_name))
           ok == validate_project_name(Some(name))
       IN  /\ validated' = Some([name |-> name, result |-> ok])
           /\ IF ~ok
              THEN /\ console' = InvalidName
                   /\ pc' = "exited"
                   /\ exit_code' = Some(1)
                   /\ UNCHANGED <<project_name, description>>
              ELSE /\ project_name' = Some(name)
                   /\ description' = Val(args).description
                   /\ pc' = "progress"
                   /\ UNCHANGED <<console, exit_code>>
    /\ UNCHANGED <<argv, args, fs, fs0, total_tasks, advanced, steps, failed, call,
                   completed>>

\* lines 268-276: no project name, the interactive panel
MainInteractive ==
    /\ pc = "main"
    /\ ~Truthy(Val(args).project_name)
    /\ pc' = "prompt_name"
    /\ console' = "Interactive Setup"
    /\ UNCHANGED <<argv, args, exit_code, project_name, description, fs, fs0,
                   total_tasks, advanced, steps, failed, validated, call, completed>>

\* the prompt treating an invalid answer as the command-line branch does
PromptName_exit_on_invalid ==
    /\ pc = "prompt_name"
    /\ \E answer \in PromptNames :
         LET name == lower(answer)
             ok == validate_project_name(Some(name))
         IN  /\ project_name' = Some(name)
             /\ validated' = Some([name |-> name, result |-> ok])
             /\ IF ok
                THEN /\ pc' = "prompt_description"
                     /\ console' = "Add a custom description?"
                     /\ exit_code' = exit_code
                ELSE /\ pc' = "exited"
                     /\ console' = InvalidName
                     /\ exit_code' = Some(1)
    /\ UNCHANGED <<argv, args, description, fs, fs0, total_tasks, advanced,
                   steps, failed, call, completed>>

\* lines 279-288: one turn of the while True loop
PromptName ==
    /\ pc = "prompt_name"
    /\ \E answer \in PromptNames :
         LET name == lower(answer)
             ok == validate_project_name(Some(name))
         IN  /\ project_name' = Some(name)
             /\ validated' = Some([name |-> name, result |-> ok])
             /\ IF ok
                THEN pc' = "prompt_description" /\ console' = "Add a custom description?"
                ELSE pc' = "prompt_name" /\ console' = InvalidName
    /\ UNCHANGED <<argv, args, exit_code, description, fs, fs0, total_tasks, advanced,
                   steps, failed, call, completed>>

\* lines 291-294
PromptDescription ==
    /\ pc = "prompt_description"
    /\ \E confirm \in BOOLEAN, answer \in {<<>>, PlainDescription} :
         description' = IF confirm THEN Some(answer) ELSE None
    /\ pc' = "progress"
    /\ console' = ""
    /\ UNCHANGED <<argv, args, exit_code, project_name, fs, fs0, total_tasks, advanced,
                   steps, failed, validated, call, completed>>

\* total_tasks = 5 whatever the flag
StartProgress_always_five ==
    /\ pc = "progress"
    /\ total_tasks' = 5
    /\ pc' = IF ~Val(args).skip_git THEN "git" ELSE "venv"
    /\ console' = "Setting up project..."
    /\ UNCHANGED <<argv, args, exit_code, project_name, description, fs, fs0, advanced,
                   steps, failed, validated, call, completed>>

\* lines 316-317
StartProgress ==
    /\ pc = "progress"
    /\ total_tasks' = IF ~Val(args).skip_git THEN 5 ELSE 4
    /\ pc' = IF ~Val(args).skip_git THEN "git" ELSE "venv"
    /\ console' = "Setting up project..."
    /\ UNCHANGED <<argv, args, exit_code, project_name, description, fs, fs0, advanced,
                   steps, failed, validated, call, completed>>

\* one setup step: the call and, if it returns, progress.advance(task)
Step(step, r, next) ==
    /\ steps' = Append(steps, step)
    /\ fs' = r.fs
    /\ failed' = IF r.oserror THEN Some(step) ELSE failed
    /\ IF r.exit
       THEN /\ pc' = "exited"
            /\ exit_code' = Some(1)
            /\ console' = "Failed"
            /\ advanced' = advanced
       ELSE /\ pc' = next
            /\ advanced' = advanced + 1
            /\ console' = "ok"
            /\ exit_code' = IF next = "exited" THEN Some(0) ELSE exit_code
    /\ UNCHANGED <<argv, args, project_name, description, fs0, total_tasks, validated,
                   call, completed>>

\* lines 320-324
StepRemoveGit ==
    /\ pc = "git"
    /\ \E oserror \in BOOLEAN : Step("git", remove_git_repo(fs, oserror), "venv")

\* lines 327-330
StepRemoveVenv ==
    /\ pc = "venv"
    /\ \E oserror \in BOOLEAN : Step("venv", remove_venv(fs, oserror), "db")

\* lines 333-336
StepRemoveDatabase ==
    /\ pc = "db"
    /\ \E oserror \in BOOLEAN : Step("db", remove_database(fs, oserror), "readme")

\* lines 339-342
StepCreateReadme ==
    /\ pc = "readme"
    /\ \E oserror \in BOOLEAN :
         Step("readme", create_readme(fs, Val(project_name), description, oserror),
              "pyproject")

\* lines 345-372: the last step; main() returns after it and the process ends
\* with status 0
StepUpdatePyproject ==
    /\ pc = "pyproject"
    /\ \E ioerror \in IOErrors :
         Step("pyproject",
              update_pyproject_toml(fs, Val(project_name), description, ioerror),
              "exited")

NextMain ==
    \/ MainCommandLine
    \/ MainInteractive
    \/ PromptName
    \/ PromptDescription
    \/ StartProgress
    \/ StepRemoveGit
    \/ StepRemoveVenv
    \/ StepRemoveDatabase
    \/ StepCreateReadme
    \/ StepUpdatePyproject

SpecMain == InitMain /\ [][NextMain]_vars

-----------------------------------------------------------------------------
(* The functions called directly *)

NoCommandLine == [project_name |-> None, description |-> None, skip_git |-> FALSE]

CleanupDirs ==
    [git : Kinds, venv : Kinds, db : Kinds, readme : {None},
     pyproject : {Some(TemplateManifest)}]

InitCleanup ==
    /\ argv = NoCommandLine
    /\ args = None
    /\ pc = "direct"
    /\ fs \in CleanupDirs
    /\ InitCommon

\* one call of a cleanup function; sys.exit(1) is the SystemExit the caller sees
Cleanup(fn, r) ==
    /\ fs' = r.fs
    /\ call' = [fn |-> fn, name |-> <<>>, description |-> None, exit |-> r.exit,
                before |-> Some(fs), done_before |-> completed, again |-> fn \in completed]
    /\ completed' = IF r.exit THEN completed ELSE completed \cup {fn}
    /\ UNCHANGED <<argv, args, pc, exit_code, console, project_name, description, fs0,
                   total_tasks, advanced, steps, failed, validated>>

CallRemoveGitRepo ==
    pc = "direct" /\ \E oserror \in BOOLEAN :
        Cleanup("remove_git_repo", remove_git_repo(fs, oserror))

CallRemoveVenv ==
    pc = "direct" /\ \E oserror \in BOOLEAN :
        Cleanup("remove_venv", remove_venv(fs, oserror))

CallRemoveDatabase ==
    pc = "direct" /\ \E oserror \in BOOLEAN :
        Cleanup("remove_database", remove_database(fs, oserror))

NextCleanup ==
    \/ CallRemoveGitRepo
    \/ CallRemoveVenv
    \/ CallRemoveDatabase

SpecCleanup == InitCleanup /\ [][NextCleanup]_vars

\* the names validate_project_name accepts
ValidNames == {n \in Names : validate_project_name(Some(n))}

\* the shortest of them are enough to tell two manifests apart
ManifestNames == {n \in ValidNames : Len(n) = 1}

\* descriptions: none, empty, a text, and texts that quote the template's lines
ManifestDescriptions ==
    {None, Some(<<>>), Some(PlainDescription),
     Some(<<"replaces ">> \o NameLiteral), Some(<<"was ">> \o DescLiteral)}

ManifestDirs ==
    [git : {"absent"}, venv : {"absent"}, db : {"absent"}, readme : {None},
     pyproject : {None} \cup {Some(m) : m \in Manifests}]

InitManifest ==
    /\ argv = NoCommandLine
    /\ args = None
    /\ pc = "direct"
    /\ fs \in ManifestDirs
    /\ InitCommon

\* one call of update_pyproject_toml(base_dir, name, desc)
CallUpdatePyproject ==
    /\ pc = "direct"
    /\ \E name \in ManifestNames, desc \in ManifestDescriptions, ioerror \in IOErrors :
         LET r == update_pyproject_toml(fs, name, desc, ioerror)
         IN  /\ r.fs.pyproject # None => Len(Val(r.fs.pyproject)) <= MaxTextLen
             /\ fs' = r.fs
             /\ call' = [fn |-> "update_pyproject_toml", name |-> name,
                         description |-> desc, exit |-> r.exit, before |-> Some(fs),
                         done_before |-> {},
                         again |-> /\ call.fn = "update_pyproject_toml"
                                   /\ call.name = name
                                   /\ call.description = desc
                                   /\ ~call.exit]
    /\ UNCHANGED <<argv, args, pc, exit_code, console, project_name, description, fs0,
                   total_tasks, advanced, steps, failed, validated, completed>>

NextManifest == CallUpdatePyproject

SpecManifest == InitManifest /\ [][NextManifest]_vars

-----------------------------------------------------------------------------
(* The claims *)

\* the whole string consists of one or more characters of a-z, 0-9, '_', '-'
FullMatch(s) == Len(s) >= 1 /\ \A i \in 1..Len(s) : s[i] \in NameClass

Range(s) == {s[i] : i \in DOMAIN s}

Contains(s, sub) ==
    \E i \in 0..(Len(s) - Len(sub)) : SubSeq(s, i + 1, i + Len(sub)) = sub

AllSteps == <<"git", "venv", "db", "readme", "pyproject">>
StepsWithoutGit == <<"venv", "db", "readme", "pyproject">>

\* C1: an invocation with a valid project name on the command line, in which no
\* filesystem operation fails, runs all setup steps and ends with exit code 0.
C1_ValidInvocationSucceeds ==
    (/\ pc = "exited"
     /\ argv.project_name # None
     /\ FullMatch(Val(argv.project_name))
     /\ failed = None)
    => /\ exit_code = Some(0)
       /\ steps = IF argv.skip_git THEN StepsWithoutGit ELSE AllSteps

\* C2: validate_project_name(name) is true exactly when the whole of name is one
\* or more characters of a-z, 0-9, '_' and '-'.
C2_ValidateIsFullMatch ==
    validated # None => (Val(validated).result <=> FullMatch(Val(validated).name))

C4_ExitOnFirstFailure ==
    failed # None
    => /\ pc = "exited"
       /\ exit_code = Some(1)
       /\ steps # <<>>
       /\ steps[Len(steps)] = Val(failed)

C4_FailedMidway ==
    /\ failed = Some("venv")
    /\ pc = "exited"
    /\ steps = <<"git", "venv">>
    /\ Exists(fs.db)

\* C5 (as claimed): whenever a project name fails validation, on the command line
\* or at the prompt, the diagnostic is printed and the process has terminated
\* with a non-zero status.
C5_InvalidNameTerminates ==
    (validated # None /\ ~Val(validated).result)
    => /\ console = InvalidName
       /\ pc = "exited"
       /\ exit_code # None
       /\ exit_code # Some(0)

\* C5 (amended): a command-line name that fails validation makes main() print
\* the diagnostic and terminate at once with status 1; a name typed at the prompt
\* that fails validation makes it print the diagnostic and ask again, without
\* terminating.
C5_InvalidNameExitsOrAsksAgain ==
    (validated # None /\ ~Val(validated).result)
    => /\ console = InvalidName
       /\ IF Truthy(Val(args).project_name)
          THEN pc = "exited" /\ exit_code = Some(1) /\ steps = <<>>
          ELSE pc = "prompt_name" /\ exit_code = None

C5_AskedAgain ==
    /\ validated # None
    /\ ~Val(validated).result
    /\ pc = "prompt_name"
    /\ console = InvalidName

CleanupFns == {"remove_git_repo", "remove_venv", "remove_database"}

Target(fn, f) ==
    IF fn = "remove_git_repo" THEN f.git
    ELSE IF fn = "remove_venv" THEN f.venv
    ELSE f.db

\* C6: a cleanup function called again after it has returned once, or called
\* when its target does not exist, changes nothing and does not exit.
C6_CleanupRerunIsNoOp ==
    (/\ call.fn \in CleanupFns
     /\ call.again \/ ~Exists(Target(call.fn, Val(call.before))))
    => fs = Val(call.before) /\ ~call.exit

C6_RerunOnCleanDirectory ==
    /\ call.fn \in CleanupFns
    /\ call.again
    /\ call.done_before = CleanupFns
    /\ fs0.git = "dir" /\ fs0.venv = "dir" /\ fs0.db = "file"
    /\ fs.git = "absent" /\ fs.venv = "absent" /\ fs.db = "absent"

\* C7: update_pyproject_toml applied a second time with the same project name
\* and description leaves pyproject.toml as the first application left it.
C7_UpdateTwiceIsUpdateOnce ==
    (call.fn = "update_pyproject_toml" /\ call.again /\ ~call.exit)
    => fs.pyproject = Val(call.before).pyproject

ReadmeWritten == "readme" \in Range(steps) /\ failed # Some("readme")

NoDescription(d) == d = None \/ d = Some(<<>>)

\* C8: without a description (None or empty) README.md carries the default
\* overview and pyproject.toml the description '<project_name> - A Django
\* project'; with a description both carry exactly that description.
C8_DescriptionDefaults ==
    /\ ReadmeWritten
       => fs.readme =
            Some(<<"# ">> \o Val(project_name) \o <<"\n\n## Overview\n\n">>
                 \o (IF NoDescription(description)
                     THEN <<"A Django project built with the Django Starter Template.">>
                     ELSE Val(description))
                 \o <<ReadmeRest>>)
    /\ exit_code = Some(0)
       => Contains(Val(fs.pyproject),
                   <<"description = \"">>
                   \o (IF NoDescription(description)
                       THEN Val(project_name) \o <<" - A Django project">>
                       ELSE Val(description))
                   \o <<"\"">>)

C8_EmptyDescriptionDefaulted ==
    /\ exit_code = Some(0)
    /\ description = Some(<<>>)
    /\ Contains(Val(fs.readme), DefaultOverview)

\* C9: with --skip-git .git is never touched, the progress total is 4 (5
\* without the flag), and a successful run has run the other four steps, removed
\* .venv and the database, and advanced the progress bar exactly total times.
C9_SkipGit ==
    /\ Val(args).skip_git => fs.git = fs0.git /\ "git" \notin Range(steps)
    /\ total_tasks # 0 => total_tasks = IF Val(args).skip_git THEN 4 ELSE 5
    /\ exit_code = Some(0)
       => /\ advanced = total_tasks
          /\ SelectSeq(steps, LAMBDA x : x # "git") = StepsWithoutGit
          /\ ~Exists(fs.venv) /\ ~Exists(fs.db)
          /\ fs.readme # None /\ fs.pyproject # None

C9_SkippedGitKept ==
    /\ Val(args).skip_git
    /\ exit_code = Some(0)
    /\ fs0.git = "dir" /\ fs.git = "dir"
    /\ fs0.venv = "dir" /\ fs0.db = "file"
    /\ advanced = 4

\* C10: the project name handed to create_readme and update_pyproject_toml is
\* non-empty and consists only of a-z, 0-9, '_' and '-'.
C10_WrittenNameIsClean ==
    Range(steps) \cap {"readme", "pyproject"} # {}
    => FullMatch(Val(project_name))

====
